---- MODULE Spec2Model ----
(***************************************************************************)
(* The in-process agent message bus of mcp_robotics (MCPBus, MCPMessage,   *)
(* Agent) and the driver loop of the Flask handler process_image.          *)
(* Spec is the bus with agents registered at any time and one request;     *)
(* SpecServer is the server of main.py, the three agents registered and    *)
(* two requests in progress; SpecMessage is the construction of messages   *)
(* and the writes into their metadata; SpecStatic is one request over a    *)
(* registry that no longer changes.                                        *)
(*                                                                         *)
(* The other programs of the repository share no state with the bus and    *)
(* each has its own specification: SpecAssistant (mcp_assistant, Planner   *)
(* and Executor over a SharedContext), SpecBasics (mcp_basics), SpecAdvisor*)
(* and SpecHealth (the BlenderAdvisor of blender_expert), SpecGit (the     *)
(* file_changes tool of github_assistant) and SpecClient (the MCPClient of *)
(* basic_client).                                                          *)
(*                                                                         *)
(* Python values are encoded as follows.  None is the string "<None>", an  *)
(* optional object is a sequence of length at most one (<<>> is None),     *)
(* content is a sequence of tokens, and the text of an exception is the    *)
(* sequence of the pieces of its message.                                  *)
(***************************************************************************)
EXTENDS Integers, Sequences, FiniteSets, TLC

\* ------------------------------------------------------------- bounds

\* Largest number of bus.send calls the model follows in one run.
HopCap == 5

\* The maximum-hops value N of the cycle-bound property.
MaxHops == 3

\* ------------------------------------------------------ Python values

None == "<None>"

\* bool(x) of a target value: None and the empty string are falsy.
Truthy(x) == x \notin {None, ""}

\* str(x) inside an f-string.
Str(x) == IF x = None THEN "None" ELSE x

\* dict.get(key) on a miss.
NoAgent == 0

\* ----------------------------------------------------------- messages

\* metadata is <<>> when the argument is omitted (None), else <<dict>>.
MCPMessage(source, target, content, metadata) ==
    [source   |-> source,
     target   |-> target,
     content  |-> content,
     metadata |-> IF metadata = <<>> \/ metadata[1] = {} THEN {} ELSE metadata[1]]

\* The payload of a request that carries an image.
Image == <<"img">>

\* ------------------------------------------------------------- agents

AgentNames == {"Perception", "Planning", "Control"}

\* The agent objects that may be registered.  cls is the class, name the
\* constructor's name, next the target its process stamps on its result,
\* outcomes what one call of process may do: return a message ("msg"),
\* return nothing ("none") or raise ("raise").  Objects 1-3 are the agents
\* main.py registers, whose external calls may fail; 4 is a bare Agent,
\* whose process raises NotImplementedError; 5, 6 and 7 are other
\* subclasses of Agent: one routing back to the entry agent, one returning
\* nothing, one ending the chain with an empty target.
Pool ==
    << [cls |-> "PerceptionAgent", name |-> "Perception", next |-> "Planning",
        outcomes |-> {"msg", "raise"}, exc |-> "APIError"],
       [cls |-> "PlanningAgent", name |-> "Planning", next |-> "Control",
        outcomes |-> {"msg", "raise"}, exc |-> "APIError"],
       [cls |-> "ControlAgent", name |-> "Control", next |-> None,
        outcomes |-> {"msg", "raise"}, exc |-> "APIError"],
       [cls |-> "Agent", name |-> "Control", next |-> None,
        outcomes |-> {"raise"}, exc |-> "NotImplementedError"],
       [cls |-> "Relay", name |-> "Planning", next |-> "Perception",
        outcomes |-> {"msg"}, exc |-> "APIError"],
       [cls |-> "Mute", name |-> "Perception", next |-> None,
        outcomes |-> {"none"}, exc |-> "APIError"],
       [cls |-> "Last", name |-> "Planning", next |-> "",
        outcomes |-> {"msg"}, exc |-> "APIError"] >>

AgentIds == DOMAIN Pool

\* str(e) of what an agent raises: NotImplementedError() has no message.
ExcText(type) == IF type = "NotImplementedError" THEN <<>> ELSE <<"api error">>

\* The result of a call: it raised (raised = <<exception>>) or it returned
\* value (<<>> for None, <<message>> for a message).
Returned(value) == [raised |-> <<>>, value |-> value]
Raised(type, text) == [raised |-> <<[type |-> type, text |-> text]>>, value |-> <<>>]

\* The content an agent computes from the content it is given: the answer
\* of its external service, a function of the input.
Respond(a, content) == Append(content, Pool[a].cls)

\* A process that stamps the source of the message it was given.
process_keep_source(a, message) ==
    LET self == Pool[a] IN
    { Returned(<<MCPMessage(message.source, self.next, Respond(a, message.content), <<>>)>>) :
          o \in self.outcomes \cap {"msg"} }
    \cup { Returned(<<>>) : o \in self.outcomes \cap {"none"} }
    \cup { Raised(self.exc, ExcText(self.exc)) : o \in self.outcomes \cap {"raise"} }

\* Agent.process of agent object a on message: every result it may have.
process(a, message) ==
    LET self == Pool[a] IN
    { Returned(<<MCPMessage(self.name, self.next, Respond(a, message.content), <<>>)>>) :
          o \in self.outcomes \cap {"msg"} }
    \cup { Returned(<<>>) : o \in self.outcomes \cap {"none"} }
    \cup { Raised(self.exc, ExcText(self.exc)) : o \in self.outcomes \cap {"raise"} }

\* ---------------------------------------------------------------- bus

\* MCPBus.__init__: no agent under any name.
EmptyRegistry == [n \in AgentNames |-> NoAgent]

\* self.agents.get(key)
Get(registry, key) == IF key \in DOMAIN registry THEN registry[key] ELSE NoAgent

\* A register_agent that rebuilds the dict with the new agent alone.
register_agent_reset(registry, a) ==
    [n \in DOMAIN registry |-> IF n = Pool[a].name THEN a ELSE NoAgent]

\* A register_agent that keeps an entry already there (setdefault).
register_agent_keep(registry, a) ==
    IF registry[Pool[a].name] = NoAgent
    THEN [registry EXCEPT ![Pool[a].name] = a]
    ELSE registry

\* MCPBus.register_agent: self.agents[agent.name] = agent
register_agent(registry, a) == [registry EXCEPT ![Pool[a].name] = a]

NotFoundText(target) == <<"Target agent '", Str(target), "' not found.">>

\* A process that writes its result into the message it was given and
\* returns that same object.
message_after_inplace(a, message, r) ==
    IF r.value # <<>> THEN r.value[1] ELSE message

\* The message given to process of agent a, as it is when the call has
\* ended with result r: no process assigns to a field of its argument.
message_after(a, message, r) == message

\* A send that calls process a second time to produce its result.
send_twice(registry, message) ==
    LET target == Get(registry, message.target) IN
    IF target # NoAgent
    THEN { [invoked |-> <<[agent |-> target, message |-> message,
                           after |-> message_after(target, message, q), out |-> q],
                          [agent |-> target, message |-> message,
                           after |-> message_after(target, message, r), out |-> r]>>,
            out |-> r, registry |-> registry] :
              q \in process(target, message), r \in process(target, message) }
    ELSE { [invoked |-> <<>>,
            out |-> Raised("Exception", NotFoundText(message.target)),
            registry |-> registry] }

\* A send that drops the entry it has served (self.agents.pop).
send_pop(registry, message) ==
    LET target == Get(registry, message.target) IN
    IF target # NoAgent
    THEN { [invoked |-> <<[agent |-> target, message |-> message,
                           after |-> message_after(target, message, r), out |-> r]>>,
            out |-> r,
            registry |-> [registry EXCEPT ![message.target] = NoAgent]] :
              r \in process(target, message) }
    ELSE { [invoked |-> <<>>,
            out |-> Raised("Exception", NotFoundText(message.target)),
            registry |-> registry] }

\* MCPBus.send: every result the call may have, each with the calls of
\* process it makes (invoked), in order, and self.agents as the call
\* leaves it (registry).
send(registry, message) ==
    LET target == Get(registry, message.target) IN
    IF target # NoAgent
    THEN { [invoked |-> <<[agent |-> target, message |-> message,
                           after |-> message_after(target, message, r), out |-> r]>>,
            out |-> r, registry |-> registry] :
              r \in process(target, message) }
    ELSE { [invoked |-> <<>>,
            out |-> Raised("Exception", NotFoundText(message.target)),
            registry |-> registry] }

\* ------------------------------------------------------------ request

\* What the handler reads of a request: the shape Flask reports (a JSON
\* body, a multipart body with files, or a form) and the 'image' entry:
\* <<>> when there is none, <<content>> otherwise (content <<>> is empty).
Requests == [shape : {"json", "files", "form"}, image : {<<>>, << <<>> >>, <<Image>>}]

\* main.py lines 20-27: the value of data, or the exception raised.
request_data(req) ==
    IF req.shape = "files" /\ req.image = <<>>
    THEN Raised("AttributeError", <<"'NoneType' object has no attribute 'read'">>)
    ELSE Returned(req.image)

\* not data
NoData(data) == data = <<>> \/ data[1] = <<>>

\* ------------------------------------------------------------- driver

\* An entry message addressed to the second stage.
EntryMessage_skip(content) == MCPMessage("Sensor", "Planning", content, <<>>)

\* The entry message of a run.
EntryMessage(content) == MCPMessage("Sensor", "Perception", content, <<>>)

\* while response and response.target
LoopCondition(response) == response # <<>> /\ Truthy(response[1].target)

\* A trace entry that loses the content.
HopEntry_blank(message) ==
    [source |-> message.source, target |-> message.target, content |-> <<>>]

\* The dict appended to results for one response.
HopEntry(message) ==
    [source |-> message.source, target |-> message.target, content |-> message.content]

\* A loop exit that does not append the last response.
FinalResults_drop(results, response) == results

\* main.py lines 51-56: the last response is appended too, if there is one.
FinalResults(results, response) ==
    IF response # <<>> THEN Append(results, HopEntry(response[1])) ELSE results

\* A response of the handler: the status code and the JSON body, given by
\* its keys and their values (a key not in keys is absent from the body).
SuccessReply(results) ==
    [code |-> 200,
     body |-> [keys |-> {"status", "results"}, status |-> "success",
               results |-> results, error |-> <<>>]]

ErrorReply(code, text) ==
    [code |-> code,
     body |-> [keys |-> {"error"}, status |-> "", results |-> <<>>, error |-> text]]

\* except Exception as e: return jsonify({'error': str(e)}), 500
Handler(exception) == ErrorReply(500, exception.text)

\* -------------------------------------------------------------- state

VARIABLES
    agents,     \* MCPBus.agents: name -> agent object (NoAgent: no entry)
    lastReg,    \* history: name -> the agent last passed to register_agent
    replaced,   \* history: name -> the agent last displaced by another one
    call,       \* <<>>, or <<the record of a bus.send just made by a caller>>
    run,        \* the request being handled by process_image
    prev,       \* history: <<>>, or <<the summary of the run before this one>>
    other,      \* a second request handled at the same time as run
    heap,       \* the dict objects: identity -> set of keys (Unallocated: none)
    msgs,       \* the metadata of the messages constructed, in order
    added       \* history: per message, the keys written through it

\* The state of the message objects, used by the message operations only.
msgvars == <<heap, msgs, added>>

\* The state of the bus and of the requests.
busvars == <<agents, lastReg, replaced, call, run, prev, other>>

\* The other programs of the repository, each with its own state.
VARIABLES
    ctx,        \* mcp_assistant: SharedContext.data
    llmCalls,   \* mcp_assistant: the chat completions requested so far
    lastAct,    \* mcp_assistant: the last operation on the context
    context,    \* mcp_basics: Context.data
    acted,      \* mcp_basics: the names of the models whose act was called
    scene,      \* advisor: the scene data the caller holds
    advisor,    \* advisor: BlenderAdvisor.suggestions
    analysis,   \* advisor: <<>>, or <<the last result of analyze_scene>>
    direct,     \* advisor: the partial analyses called since analyze_scene
    health,     \* advisor: <<>>, or <<the last health score computed>>
    gitcall,    \* github assistant: <<>>, or <<the last call and its result>>
    client      \* mcp client: the MCPClient of main and where main is

asstvars == <<ctx, llmCalls, lastAct>>
toyvars == <<context, acted>>
advvars == <<scene, advisor, analysis, direct, health>>
gitvars == <<gitcall>>
clivars == <<client>>

\* The state of the programs other than the bus.
extvars == <<asstvars, toyvars, advvars, gitvars, clivars>>

vars == <<busvars, msgvars, extvars>>

IdleRun ==
    [pc |-> "idle", data |-> <<>>, response |-> <<>>, results |-> <<>>,
     log |-> <<>>, reply |-> <<>>]

\* What a run keeps of one bus.send.
LogEntry(message, o) == [target |-> message.target, invoked |-> o.invoked, out |-> o.out]

\* The record of one bus.send: the message's target, what the registry and
\* the histories held for it when the call began, the calls of process it
\* made and its result.
SendRecord(message, o) ==
    [target     |-> message.target,
     message    |-> message,
     registered |-> Get(agents, message.target),
     latest     |-> Get(lastReg, message.target),
     displaced  |-> Get(replaced, message.target),
     invoked    |-> o.invoked,
     out        |-> o.out]

\* What a finished run failed of, judged from what happened in it: the
\* request had no image, a send found no agent, an agent raised or returned
\* no message; "none" when nothing failed.
Kind(r) ==
    IF r.pc = "done" /\ NoData(r.data) THEN "MalformedPayload"
    ELSE IF r.log = <<>> THEN "none"
    ELSE LET last == r.log[Len(r.log)] IN
         IF last.invoked = <<>> THEN "TargetNotFound"
         ELSE IF last.out.raised # <<>> \/ last.out.value = <<>> THEN "AgentFailure"
         ELSE "none"

Summary(r) ==
    [kind |-> Kind(r), code |-> r.reply[1].code, keys |-> r.reply[1].body.keys]

\* ----------------------------------------------------- message objects

\* Most dicts a caller builds itself, and most messages constructed.
MaxDicts == 1
MaxMsgs == 3

\* The keys written into metadata.
Keys == {"trace", "id"}

\* A metadata argument shared by every call that omits it
\* (def __init__(..., metadata={})).
metadata_or_default(h, metadata) ==
    IF metadata = <<>> \/ h[metadata[1]] = {}
    THEN [heap |-> IF h = <<>> THEN <<{}>> ELSE h, ref |-> 1]
    ELSE [heap |-> h, ref |-> metadata[1]]

\* mcp_message.py line 8, self.metadata = metadata or {}: the dict objects
\* after the assignment and the identity of the one the message holds.
\* metadata is <<>> for None, else <<identity of the dict passed>>; a dict
\* passed empty is falsy, so a new one is made as for None.
metadata_or(h, metadata) ==
    IF metadata = <<>> \/ h[metadata[1]] = {}
    THEN [heap |-> Append(h, {}), ref |-> Len(h) + 1]
    ELSE [heap |-> h, ref |-> metadata[1]]

\* --------------------------------------------------------------- steps

\* The registry after the start-up registrations of main.py lines 11-14.
DefaultRegistry ==
    register_agent(register_agent(register_agent(EmptyRegistry, 1), 2), 3)

Done(r, reply) == [r EXCEPT !.pc = "done", !.reply = <<reply>>]

\* process_image from the request to the first bus.send (lines 18-41):
\* every state of the run it may lead to, with the registry it leaves.
BeginNext(registry, req) ==
    LET d  == request_data(req)
        r0 == [IdleRun EXCEPT !.data = d.value] IN
    IF d.raised # <<>>
    THEN { [run |-> Done(r0, Handler(d.raised[1])), registry |-> registry] }
    ELSE IF NoData(d.value)
    THEN { [run |-> Done(r0, ErrorReply(400, <<"No image data provided">>)),
            registry |-> registry] }
    ELSE LET msg == EntryMessage(d.value[1]) IN
         { [run |-> LET r1 == [r0 EXCEPT !.log = <<LogEntry(msg, o)>>] IN
                    IF o.out.raised # <<>>
                    THEN Done(r1, Handler(o.out.raised[1]))
                    ELSE [r1 EXCEPT !.pc = "loop", !.response = o.out.value],
            registry |-> o.registry] : o \in send(registry, msg) }

\* A loop body whose results list is one list of the module, shared by
\* the requests in progress.
LoopNext_shared(registry, r) ==
    LET shared  == IF Len(run.results) >= Len(other.results)
                   THEN run.results ELSE other.results
        results == Append(shared, HopEntry(r.response[1])) IN
    { [run |-> LET r1 == [r EXCEPT !.results = results,
                                   !.log = Append(@, LogEntry(r.response[1], o))] IN
               IF o.out.raised # <<>>
               THEN Done(r1, Handler(o.out.raised[1]))
               ELSE [r1 EXCEPT !.response = o.out.value],
        registry |-> o.registry] : o \in send(registry, r.response[1]) }

\* A loop body that sends a second time when the target is not found.
LoopNext_retry(registry, r) ==
    LET results == Append(r.results, HopEntry(r.response[1])) IN
    { [run |-> LET again == o.invoked = <<>> /\ p.invoked = <<>>
                   l1 == Append(r.log, LogEntry(r.response[1], o))
                   r1 == [r EXCEPT !.results = results,
                                   !.log = IF again
                                           THEN Append(l1, LogEntry(r.response[1], p))
                                           ELSE l1] IN
               IF o.out.raised # <<>>
               THEN Done(r1, Handler(o.out.raised[1]))
               ELSE [r1 EXCEPT !.response = o.out.value],
        registry |-> o.registry] :
          o \in send(registry, r.response[1]), p \in send(registry, r.response[1]) }

\* A loop body that puts the hop at the head of results (results.insert(0, ...)).
LoopNext_prepend(registry, r) ==
    LET results == <<HopEntry(r.response[1])>> \o r.results IN
    { [run |-> LET r1 == [r EXCEPT !.results = results,
                                   !.log = Append(@, LogEntry(r.response[1], o))] IN
               IF o.out.raised # <<>>
               THEN Done(r1, Handler(o.out.raised[1]))
               ELSE [r1 EXCEPT !.response = o.out.value],
        registry |-> o.registry] : o \in send(registry, r.response[1]) }

\* A loop body that does not assign the result of bus.send to response.
LoopNext_stale(registry, r) ==
    LET results == Append(r.results, HopEntry(r.response[1])) IN
    { [run |-> LET r1 == [r EXCEPT !.results = results,
                                   !.log = Append(@, LogEntry(r.response[1], o))] IN
               IF o.out.raised # <<>>
               THEN Done(r1, Handler(o.out.raised[1]))
               ELSE r1,
        registry |-> o.registry] : o \in send(registry, r.response[1]) }

\* One iteration of the while loop (lines 43-49) of the run r.
LoopNext(registry, r) ==
    LET results == Append(r.results, HopEntry(r.response[1])) IN
    { [run |-> LET r1 == [r EXCEPT !.results = results,
                                   !.log = Append(@, LogEntry(r.response[1], o))] IN
               IF o.out.raised # <<>>
               THEN Done(r1, Handler(o.out.raised[1]))
               ELSE [r1 EXCEPT !.response = o.out.value],
        registry |-> o.registry] : o \in send(registry, r.response[1]) }

\* The loop's exit and the success response (lines 51-61) of the run r.
FinishNext(r) ==
    LET results == FinalResults(r.results, r.response) IN
    Done([r EXCEPT !.results = results], SuccessReply(results))

\* ------------------------------------------------------ mcp_assistant

\* A string is the sequence of its words; a word contains itself and the
\* words Within gives for it.
Words == {"Summarize", "summarize", "summarizes", "EXTRACT", "extract", "renew"}

\* str.lower() of a word.
LowerWord(w) ==
    CASE w = "Summarize" -> "summarize"
      [] w = "EXTRACT"   -> "extract"
      [] w \in {"QUIT", "Quit"} -> "quit"
      [] OTHER           -> w

\* user_request.lower()
lower(s) == [i \in DOMAIN s |-> LowerWord(s[i])]

\* The words that are substrings of the word w, w apart.
Within(w) == IF w = "summarizes" THEN {"summarize"} ELSE {}

\* sub in s
In(sub, s) == \E i \in DOMAIN s : sub = s[i] \/ sub \in Within(s[i])

\* Longest user request, in words.
MaxWords == 2

UserRequests == UNION {[1..n -> Words] : n \in 0..MaxWords}

\* "" is the empty document.
Documents == {"", "contract"}

\* The plan Planner.act writes.
PlanText == "1. Summarize ... 2. Extract ... 3. Extract ..."

\* response.choices[0].message.content
Answers == {None, "", "answer"}

\* SharedContext.__init__: self.data
SharedContext ==
    [user_request |-> <<>>, task_plan |-> "", task_result |-> "", document_text |-> ""]

\* SharedContext.update(key, value)
update(data, key, value) == [data EXCEPT ![key] = value]

\* A Planner.act that tests the request as it was typed.
Planner_act_exact(data) ==
    IF In("summarize", data.user_request) /\ In("extract", data.user_request)
    THEN update(data, "task_plan", PlanText)
    ELSE data

\* mcp_assistant Planner.act: self.context.data after the call.
Planner_act(data) ==
    LET user_request == lower(data.user_request) IN
    IF In("summarize", user_request) /\ In("extract", user_request)
    THEN update(data, "task_plan", PlanText)
    ELSE data

\* An Executor.act that gives up only when both plan and document lack.
Executor_act_both(data) ==
    IF ~Truthy(data.task_plan) /\ ~Truthy(data.document_text)
    THEN { [data |-> data, calls |-> 0, raised |-> FALSE] }
    ELSE { [data |-> update(data, "task_result", a), calls |-> 1, raised |-> FALSE] :
              a \in Answers }
         \cup { [data |-> data, calls |-> 1, raised |-> TRUE] }

\* mcp_assistant Executor.act: every outcome of the call: self.context.data
\* after it, the chat completions it requested, and whether it raised (the
\* request to the API failed).
Executor_act(data) ==
    IF ~Truthy(data.task_plan) \/ ~Truthy(data.document_text)
    THEN { [data |-> data, calls |-> 0, raised |-> FALSE] }
    ELSE { [data |-> update(data, "task_result", a), calls |-> 1, raised |-> FALSE] :
              a \in Answers }
         \cup { [data |-> data, calls |-> 1, raised |-> TRUE] }

\* --------------------------------------------------------- mcp_basics

\* Context.__init__: self.data
Context == [task |-> None, state |-> {}, memory |-> {}]

\* An Executor.act that leaves the task in place.
BasicExecutor_act_keep(data) == data

\* mcp_basics Planner.act: self.context.data after the call.
BasicPlanner_act(data) ==
    IF ~Truthy(data.task) THEN [data EXCEPT !.task = "Plan step A"] ELSE data

\* mcp_basics Executor.act: self.context.data after the call.
BasicExecutor_act(data) ==
    IF data.task = "Plan step A" THEN [data EXCEPT !.task = None] ELSE data

\* ----------------------------------------------------- blender advisor

\* SeverityLevel: the members and their values.
SeverityLevel ==
    [INFO |-> "info", WARNING |-> "warning", ERROR |-> "error", CRITICAL |-> "critical"]

Suggestion(category, severity, title, affected_objects) ==
    [category |-> category, severity |-> severity, title |-> title,
     affected_objects |-> affected_objects]

\* Suggestion.to_dict
to_dict(s) ==
    [category |-> s.category, severity |-> SeverityLevel[s.severity],
     title |-> s.title, affected_objects |-> s.affected_objects]

\* if cond: suggestions.append(s)
When(cond, s) == IF cond THEN <<s>> ELSE <<>>

RECURSIVE Concat(_)
Concat(seqs) == IF seqs = <<>> THEN <<>> ELSE seqs[1] \o Concat(Tail(seqs))

RECURSIVE Sum(_)
Sum(numbers) == IF numbers = <<>> THEN 0 ELSE numbers[1] + Sum(Tail(numbers))

\* seq[:n]
Take(seq, n) == SubSeq(seq, 1, IF Len(seq) < n THEN Len(seq) ELSE n)

\* The scene data the model follows.  A modifier, a mesh, an object, the
\* render settings, a material and a texture are the dicts of the scene
\* with the keys the advisor reads; triangle_ratio is in hundredths.
Modifier(type, count, render_levels, levels, show_viewport) ==
    [type |-> type, name |-> type, count |-> count, render_levels |-> render_levels,
     levels |-> levels, show_viewport |-> show_viewport]

PlainMesh ==
    [vertex_count |-> 8, has_loose_vertices |-> FALSE, triangle_ratio |-> 0,
     intended_for |-> "", has_degenerate_faces |-> FALSE,
     has_subdivision_surface |-> FALSE, bad_edge_flow |-> FALSE]

BrokenMesh ==
    [vertex_count |-> 600000, has_loose_vertices |-> TRUE, triangle_ratio |-> 90,
     intended_for |-> "", has_degenerate_faces |-> TRUE,
     has_subdivision_surface |-> TRUE, bad_edge_flow |-> TRUE]

GameMesh ==
    [vertex_count |-> 200000, has_loose_vertices |-> FALSE, triangle_ratio |-> 90,
     intended_for |-> "game", has_degenerate_faces |-> FALSE,
     has_subdivision_surface |-> TRUE, bad_edge_flow |-> FALSE]

SceneObjects ==
    { [name |-> "Cube", type |-> "MESH", mesh_data |-> PlainMesh, modifiers |-> <<>>],
      [name |-> "Statue", type |-> "MESH", mesh_data |-> BrokenMesh,
       modifiers |-> << Modifier("SUBSURF", 1, 4, 3, TRUE),
                        Modifier("BEVEL", 1, 2, 2, TRUE) >>],
      [name |-> "Tank", type |-> "MESH", mesh_data |-> GameMesh,
       modifiers |-> << Modifier("ARRAY", 200, 2, 2, TRUE),
                        Modifier("ARRAY", 2, 2, 2, FALSE),
                        Modifier("CLOTH", 1, 2, 2, TRUE),
                        Modifier("MIRROR", 1, 2, 2, TRUE),
                        Modifier("SOFT_BODY", 1, 2, 2, TRUE),
                        Modifier("SUBSURF", 1, 2, 2, TRUE) >>],
      [name |-> "Lamp", type |-> "LIGHT", mesh_data |-> PlainMesh,
       modifiers |-> << Modifier("ARRAY", 101, 2, 2, TRUE) >>] }

\* Most objects of a scene.
MaxObjects == 2

RenderSettings ==
    { [samples |-> 0, resolution_x |-> 1920, resolution_y |-> 1080,
       motion_blur |-> FALSE, motion_blur_samples |-> 1],
      [samples |-> 2000, resolution_x |-> 7680, resolution_y |-> 4320,
       motion_blur |-> TRUE, motion_blur_samples |-> 8] }

Materials ==
    { <<>>,
      << [name |-> "Rust", users |-> 0, node_count |-> 60],
         [name |-> "Steel", users |-> 2, node_count |-> 5] >> }

Textures ==
    { <<>>,
      << [name |-> "Sky", width |-> 16384, height |-> 8192] >> }

Scenes ==
    [objects : UNION {[1..n -> SceneObjects] : n \in 0..MaxObjects},
     render_settings : RenderSettings, materials : Materials, textures : Textures]

\* A scene not loaded yet.
NoScene ==
    [objects |-> <<>>,
     render_settings |-> [samples |-> 0, resolution_x |-> 1920, resolution_y |-> 1080,
                          motion_blur |-> FALSE, motion_blur_samples |-> 1],
     materials |-> <<>>, textures |-> <<>>]

\* A method of the advisor gives self.suggestions as the call leaves it
\* (self) and what the call returns (ret).

_check_mesh_topology(self, obj_name, mesh_data) ==
    LET issues ==
           When(mesh_data.vertex_count > 100000,
                Suggestion("topology", "WARNING", "High Polygon Count", <<obj_name>>))
        \o When(mesh_data.has_loose_vertices,
                Suggestion("topology", "ERROR", "Loose Vertices Detected", <<obj_name>>))
        \o When(mesh_data.triangle_ratio > 80 /\ mesh_data.intended_for # "game",
                Suggestion("topology", "INFO", "High Triangle Density", <<obj_name>>))
        \o When(mesh_data.has_degenerate_faces,
                Suggestion("topology", "ERROR", "Degenerate Faces Found", <<obj_name>>))
        \o When(mesh_data.has_subdivision_surface /\ mesh_data.bad_edge_flow,
                Suggestion("topology", "WARNING", "Poor Edge Flow", <<obj_name>>))
    IN [self |-> self \o issues, ret |-> issues]

\* The names in affected_objects of the issues, and per name its issues.
_group_issues_by_object(issues) ==
    LET names == UNION {{issues[i].affected_objects[j] :
                            j \in DOMAIN issues[i].affected_objects} : i \in DOMAIN issues} IN
    [n \in names |->
        LET mine(s) == \E j \in DOMAIN s.affected_objects : s.affected_objects[j] = n IN
        [i \in DOMAIN SelectSeq(issues, mine) |-> to_dict(SelectSeq(issues, mine)[i])]]

\* The loop of check_topology_health over objects, from self.suggestions
\* self and the issues found so far.
RECURSIVE TopologyLoop(_, _, _)
TopologyLoop(self, objects, topology_issues) ==
    IF objects = <<>> THEN [self |-> self, ret |-> topology_issues]
    ELSE LET obj == objects[1] IN
         IF obj.type # "MESH"
         THEN TopologyLoop(self, Tail(objects), topology_issues)
         ELSE LET c == _check_mesh_topology(self, obj.name, obj.mesh_data) IN
              TopologyLoop(c.self, Tail(objects), topology_issues \o c.ret)

check_topology_health(self, scene_data) ==
    LET l == TopologyLoop(self, scene_data.objects, <<>>) IN
    [self |-> l.self,
     ret  |-> [total_issues |-> Len(l.ret),
               issues_by_object |-> _group_issues_by_object(l.ret)]]

_analyze_render_settings(self, render_settings) ==
    LET suggestions ==
           When(render_settings.samples > 1000,
                Suggestion("optimization", "WARNING", "High Sample Count",
                           <<"Render Settings">>))
        \o When(render_settings.resolution_x * render_settings.resolution_y > 8294400,
                Suggestion("optimization", "INFO", "High Resolution Render",
                           <<"Render Settings">>))
        \o When(render_settings.motion_blur /\ render_settings.motion_blur_samples > 5,
                Suggestion("optimization", "INFO", "High Motion Blur Samples",
                           <<"Render Settings">>))
    IN [self |-> self \o suggestions, ret |-> suggestions]

_analyze_materials(self, materials) ==
    LET unused(mat) == mat.users = 0
        complex(mat) == mat.node_count > 50
        names(mats) == [i \in DOMAIN mats |-> mats[i].name]
        unused_materials == SelectSeq(materials, unused)
        complex_materials == names(SelectSeq(materials, complex))
        suggestions ==
           When(unused_materials # <<>>,
                Suggestion("optimization", "INFO", "Unused Materials",
                           names(unused_materials)))
        \o When(complex_materials # <<>>,
                Suggestion("optimization", "WARNING", "Complex Materials",
                           complex_materials))
    IN [self |-> self \o suggestions, ret |-> suggestions]

_analyze_scene_complexity(self, objects) ==
    LET total_vertices ==
           Sum([i \in DOMAIN objects |->
                   IF objects[i].type = "MESH" THEN objects[i].mesh_data.vertex_count ELSE 0])
        suggestions ==
           When(total_vertices > 1000000,
                Suggestion("optimization", "WARNING", "High Scene Complexity", <<"Scene">>))
        \o When(Len(objects) > 1000,
                Suggestion("optimization", "WARNING", "Many Objects", <<"Scene">>))
    IN [self |-> self \o suggestions, ret |-> suggestions]

\* total_memory is compared in bytes: (w * h * 4) / (1024 * 1024) > 500.
_analyze_textures(self, textures) ==
    LET large(texture) == texture.width > 4096 \/ texture.height > 4096
        large_textures ==
           [i \in DOMAIN SelectSeq(textures, large) |-> SelectSeq(textures, large)[i].name]
        total_bytes ==
           Sum([i \in DOMAIN textures |-> textures[i].width * textures[i].height * 4])
        suggestions ==
           When(large_textures # <<>>,
                Suggestion("optimization", "WARNING", "Large Textures", large_textures))
        \o When(total_bytes > 500 * 1024 * 1024,
                Suggestion("optimization", "WARNING", "High Texture Memory Usage",
                           <<"Scene">>))
    IN [self |-> self \o suggestions, ret |-> suggestions]

_calculate_performance_impact(suggestions) ==
    LET high(s) == s.severity \in {"ERROR", "CRITICAL"}
        medium(s) == s.severity = "WARNING" IN
    IF Len(SelectSeq(suggestions, high)) > 3 THEN "High"
    ELSE IF Len(SelectSeq(suggestions, medium)) > 5 THEN "Medium"
    ELSE "Low"

_get_priority_optimizations(suggestions) ==
    LET priority(s) == s.severity \in {"ERROR", "WARNING"}
        first == Take(SelectSeq(suggestions, priority), 3) IN
    [i \in DOMAIN first |-> to_dict(first[i])]

get_optimization_hints(self, scene_data) ==
    LET r == _analyze_render_settings(self, scene_data.render_settings)
        m == _analyze_materials(r.self, scene_data.materials)
        c == _analyze_scene_complexity(m.self, scene_data.objects)
        t == _analyze_textures(c.self, scene_data.textures)
        optimization_suggestions == r.ret \o m.ret \o c.ret \o t.ret IN
    [self |-> t.self,
     ret  |-> [total_suggestions |-> Len(optimization_suggestions),
               performance_impact |-> _calculate_performance_impact(optimization_suggestions),
               priority_optimizations |->
                   _get_priority_optimizations(optimization_suggestions)]]

\* modifier_types, and modifier_types.index(t) counted from 0.
Types(modifiers) == [i \in DOMAIN modifiers |-> modifiers[i].type]
Index(types, t) == (CHOOSE i \in DOMAIN types :
                       types[i] = t /\ \A j \in 1..(i - 1) : types[j] # t) - 1

_check_modifier_order(obj_name, modifiers) ==
    LET modifier_types == Types(modifiers)
        has(t) == \E i \in DOMAIN modifier_types : modifier_types[i] = t
        subsurf_index == Index(modifier_types, "SUBSURF")
        mirror_index == Index(modifier_types, "MIRROR") IN
       When(/\ has("SUBSURF")
            /\ subsurf_index < Len(modifier_types) - 1
            /\ \E i \in DOMAIN modifier_types :
                  i - 1 > subsurf_index /\ modifier_types[i] \in {"BEVEL", "EDGE_SPLIT"},
            Suggestion("modifiers", "WARNING", "Suboptimal Modifier Order", <<obj_name>>))
    \o When(has("MIRROR") /\ mirror_index > 2,
            Suggestion("modifiers", "INFO", "Late Mirror Modifier", <<obj_name>>))

_check_inefficient_modifiers(obj_name, modifiers) ==
    Concat([i \in DOMAIN modifiers |->
       LET modifier == modifiers[i] IN
          When(modifier.type = "ARRAY" /\ modifier.count > 100,
               Suggestion("modifiers", "WARNING", "High Array Count", <<obj_name>>))
       \o When(modifier.type = "SUBSURF" /\ modifier.render_levels > 3,
               Suggestion("modifiers", "WARNING", "High Subdivision Levels", <<obj_name>>))
       \o When(modifier.type = "SUBSURF" /\ modifier.levels > 2,
               Suggestion("modifiers", "INFO", "High Viewport Subdivision", <<obj_name>>))])

_check_unnecessary_modifiers(obj_name, modifiers) ==
    LET modifier_types == Types(modifiers)
        disabled(mod) == ~mod.show_viewport
        duplicate_types ==
           {modifier_types[i] : i \in
               {k \in DOMAIN modifier_types :
                   \E j \in DOMAIN modifier_types :
                      j # k /\ modifier_types[j] = modifier_types[k]}} IN
       When(SelectSeq(modifiers, disabled) # <<>>,
            Suggestion("modifiers", "INFO", "Disabled Modifiers", <<obj_name>>))
    \o When(duplicate_types # {},
            Suggestion("modifiers", "INFO", "Duplicate Modifier Types", <<obj_name>>))

_check_modifier_performance(obj_name, modifiers) ==
    LET modifier_types == Types(modifiers)
        simulation(t) == t \in {"CLOTH", "SOFT_BODY", "FLUID", "SMOKE", "DYNAMIC_PAINT"}
        active_simulations == SelectSeq(modifier_types, simulation) IN
       When(/\ \E i \in DOMAIN modifier_types : modifier_types[i] = "SUBSURF"
            /\ Len(modifier_types) > 5,
            Suggestion("modifiers", "WARNING", "Heavy Modifier Stack", <<obj_name>>))
    \o When(Len(active_simulations) > 1,
            Suggestion("modifiers", "WARNING", "Multiple Simulations", <<obj_name>>))

_analyze_modifier_stack(self, obj_name, modifiers) ==
    LET suggestions ==
           _check_modifier_order(obj_name, modifiers)
        \o _check_inefficient_modifiers(obj_name, modifiers)
        \o _check_unnecessary_modifiers(obj_name, modifiers)
        \o _check_modifier_performance(obj_name, modifiers)
    IN [self |-> self \o suggestions, ret |-> suggestions]

\* The loop of review_modifier_stack over objects.
RECURSIVE ModifierLoop(_, _, _)
ModifierLoop(self, objects, modifier_suggestions) ==
    IF objects = <<>> THEN [self |-> self, ret |-> modifier_suggestions]
    ELSE LET obj == objects[1] IN
         IF obj.modifiers = <<>>
         THEN ModifierLoop(self, Tail(objects), modifier_suggestions)
         ELSE LET a == _analyze_modifier_stack(self, obj.name, obj.modifiers) IN
              ModifierLoop(a.self, Tail(objects), modifier_suggestions \o a.ret)

\* The issue a title names: "order", "subdivision" or "array" in
\* suggestion.title.lower().
IssueType(title) ==
    CASE title = "Suboptimal Modifier Order" -> {"Modifier order"}
      [] title \in {"High Subdivision Levels", "High Viewport Subdivision"} ->
            {"Subdivision levels"}
      [] title = "High Array Count" -> {"Array efficiency"}
      [] OTHER -> {}

_get_common_modifier_issues(suggestions) ==
    UNION {IssueType(suggestions[i].title) : i \in DOMAIN suggestions}

review_modifier_stack(self, scene_data) ==
    LET l == ModifierLoop(self, scene_data.objects, <<>>)
        stacked(obj) == obj.modifiers # <<>> IN
    [self |-> l.self,
     ret  |-> [total_suggestions |-> Len(l.ret),
               objects_with_modifiers |-> Len(SelectSeq(scene_data.objects, stacked)),
               common_issues |-> _get_common_modifier_issues(l.ret)]]

_count_severity_levels(self) ==
    [value \in {SeverityLevel[level] : level \in DOMAIN SeverityLevel} |->
        Cardinality({i \in DOMAIN self : SeverityLevel[self[i].severity] = value})]

severity_weights == [CRITICAL |-> 25, ERROR |-> 15, WARNING |-> 8, INFO |-> 2]

\* A health score without the floor of 0.
_calculate_health_score_raw(self) ==
    IF self = <<>> THEN 100
    ELSE 100 - Sum([i \in DOMAIN self |-> severity_weights[self[i].severity]])

_calculate_health_score(self) ==
    IF self = <<>> THEN 100
    ELSE LET total_penalty == Sum([i \in DOMAIN self |-> severity_weights[self[i].severity]])
             health_score == 100 - total_penalty IN
         IF health_score > 0 THEN health_score ELSE 0

_generate_summary(self) ==
    LET severe(s) == s.severity \in {"ERROR", "CRITICAL"}
        top == Take(SelectSeq(self, severe), 5) IN
    [total_suggestions |-> Len(self),
     severity_breakdown |-> _count_severity_levels(self),
     health_score |-> _calculate_health_score(self),
     top_priorities |-> [i \in DOMAIN top |-> to_dict(top[i])]]

\* An analyze_scene that keeps the suggestions of the calls before.
analyze_scene_keep(self, scene_data) ==
    LET t == check_topology_health(self, scene_data)
        o == get_optimization_hints(t.self, scene_data)
        m == review_modifier_stack(o.self, scene_data) IN
    [self |-> m.self,
     ret  |-> [summary |-> _generate_summary(m.self),
               topology_health |-> t.ret,
               optimization_hints |-> o.ret,
               modifier_review |-> m.ret,
               all_suggestions |-> [i \in DOMAIN m.self |-> to_dict(m.self[i])],
               severity_counts |-> _count_severity_levels(m.self)]]

\* BlenderAdvisor.analyze_scene; the lists of constant recommendations in
\* the three partial results are left out.
analyze_scene(self, scene_data) ==
    LET t == check_topology_health(<<>>, scene_data)
        o == get_optimization_hints(t.self, scene_data)
        m == review_modifier_stack(o.self, scene_data) IN
    [self |-> m.self,
     ret  |-> [summary |-> _generate_summary(m.self),
               topology_health |-> t.ret,
               optimization_hints |-> o.ret,
               modifier_review |-> m.ret,
               all_suggestions |-> [i \in DOMAIN m.self |-> to_dict(m.self[i])],
               severity_counts |-> _count_severity_levels(m.self)]]

\* --------------------------------------------------- github assistant

\* A string is the sequence of its characters; NL is the newline, Notice
\* stands for the text "... Output truncated. Showing n of m lines ...",
\* which has no newline in it.
NL == "\n"
Notice == "#"

\* Longest output of git diff, in characters, and the largest
\* max_diff_lines (the smallest is -1).
MaxChars == 5
MaxDiffLines == 3

RECURSIVE Strings(_)
Strings(n) ==
    IF n = 0 THEN {<<>>}
    ELSE Strings(n - 1) \cup {Append(s, c) : s \in Strings(n - 1), c \in {"a", NL}}

\* s.split('\n'): the lines of s, one more than its newlines.
RECURSIVE split(_)
split(s) ==
    IF s = <<>> THEN << <<>> >>
    ELSE LET rest == split(Tail(s)) IN
         IF s[1] = NL THEN << <<>> >> \o rest
         ELSE << <<s[1]>> \o rest[1] >> \o Tail(rest)

\* '\n'.join(lines)
RECURSIVE join(_)
join(lines) ==
    IF lines = <<>> THEN <<>>
    ELSE IF Len(lines) = 1 THEN lines[1]
    ELSE lines[1] \o <<NL>> \o join(Tail(lines))

\* lines[:n]
Slice(lines, n) ==
    LET stop == IF n >= 0 THEN (IF n < Len(lines) THEN n ELSE Len(lines))
                ELSE (IF Len(lines) + n > 0 THEN Len(lines) + n ELSE 0) IN
    SubSeq(lines, 1, stop)

\* What the two runs of git may do: each returns its stdout or raises
\* (git not installed, cwd not a directory).
GitRuns ==
    [diff : {Returned(<<s>>) : s \in Strings(MaxChars)} \cup {Raised("OSError", <<"no git">>)},
     stat : {Returned(<< <<"a">> >>), Raised("OSError", <<"no git">>)}]

\* json.dumps of the result dict, by its keys and their values, and
\* json.dumps({"error": str(e)}); a value not in keys is absent.
Json(stats, total_lines, diff, files_changed) ==
    [keys |-> {"stats", "total_lines", "diff", "files_changed"}, stats |-> stats,
     total_lines |-> total_lines, diff |-> diff, files_changed |-> files_changed,
     error |-> <<>>]

JsonError(text) ==
    [keys |-> {"error"}, stats |-> <<>>, total_lines |-> 0, diff |-> <<>>,
     files_changed |-> 0, error |-> text]

\* The message given in place of the diff and of files_changed.
UseIncludeDiff == <<"u">>

\* git_operations.py file_changes: what the call returns, or raises, git
\* being what its two runs do.
file_changes(git, include_diff, max_diff_lines) ==
    IF git.diff.raised # <<>> THEN Returned(<<JsonError(git.diff.raised[1].text)>>)
    ELSE
    LET diff_lines == split(git.diff.value[1])
        diff_output ==
           IF Len(diff_lines) > max_diff_lines
           THEN join(Slice(diff_lines, max_diff_lines)) \o <<NL, NL, Notice>>
           ELSE git.diff.value[1] IN
    IF git.stat.raised # <<>> THEN Returned(<<JsonError(git.stat.raised[1].text)>>)
    ELSE Returned(<<Json(git.stat.value[1], Len(diff_lines),
                         IF include_diff THEN diff_output ELSE UseIncludeDiff,
                         IF include_diff THEN Len(diff_lines) ELSE 0)>>)

\* github_assistant/main.py analyze_file_changes: the same after the
\* checks of base_dir (is_dir: os.path.isdir(base_dir)) and base_branch.
analyze_file_changes(base_dir, is_dir, base_branch, git, include_diff, max_diff_lines) ==
    IF base_dir = "" \/ ~is_dir
    THEN Raised("ValueError", <<"The base directory must be a valid directory path.">>)
    ELSE IF base_branch = ""
    THEN Raised("ValueError", <<"The base branch cannot be empty.">>)
    ELSE file_changes(git, include_diff, max_diff_lines)

\* --------------------------------------------------------- mcp client

\* A path is the sequence of its pieces, the last one its extension; a
\* line typed is the sequence of its words and blanks.
Paths ==
    { <<"server", ".py">>, <<"server", ".js">>, <<"server", ".PY">>, <<"server", ".sh">>,
      <<"server", ".py", ".bak">>, <<"server">>, <<>> }

\* s.endswith(suffix)
endswith(s, suffix) == s # <<>> /\ s[Len(s)] = suffix

Blank == " "

\* Longest line typed, in words and blanks.
MaxLine == 2

Lines == UNION {[1..n -> {Blank, "quit", "QUIT", "Quit", "hello"}] : n \in 0..MaxLine}

\* s.strip()
RECURSIVE lstrip(_)
lstrip(s) == IF s # <<>> /\ s[1] = Blank THEN lstrip(Tail(s)) ELSE s

RECURSIVE rstrip(_)
rstrip(s) ==
    IF s # <<>> /\ s[Len(s)] = Blank THEN rstrip(SubSeq(s, 1, Len(s) - 1)) ELSE s

strip(s) == rstrip(lstrip(s))

\* MCPClient.connect_to_server: what it raises, whether the server process
\* was started and whether the session was created; started says that
\* stdio_client could start the process, initialized that the session's
\* initialize and list_tools went through.
connect_to_server(server_script_path, started, initialized) ==
    LET is_python == endswith(server_script_path, ".py")
        is_js == endswith(server_script_path, ".js") IN
    IF ~(is_python \/ is_js)
    THEN [raised |-> <<"ValueError">>, server |-> FALSE, session |-> FALSE]
    ELSE IF ~started
    THEN [raised |-> <<"OSError">>, server |-> FALSE, session |-> FALSE]
    ELSE IF ~initialized
    THEN [raised |-> <<"McpError">>, server |-> TRUE, session |-> TRUE]
    ELSE [raised |-> <<>>, server |-> TRUE, session |-> TRUE]

\* A chat completion: it raised (ok false) or it gave a finish_reason, a
\* number of tool_calls and a content (has_content false: None).
Completions ==
    [ok : BOOLEAN, finish_reason : {"stop", "tool_calls"}, tool_calls : 0..2,
     has_content : BOOLEAN]

\* What the services do during one query: session.list_tools, the first
\* completion, json.loads of the arguments, session.call_tool, the second
\* completion.
QueryRuns ==
    [list_tools : BOOLEAN, first : Completions, args : BOOLEAN, call_tool : BOOLEAN,
     second : {c \in Completions : c.finish_reason = "stop" /\ c.tool_calls = 0}]

\* A process_query that executes every tool call of the completion.
process_query_all(env) ==
    IF ~env.list_tools \/ ~env.first.ok THEN [tools |-> 0, raised |-> TRUE]
    ELSE IF env.first.finish_reason = "tool_calls" /\ env.first.tool_calls > 0
    THEN IF ~env.args THEN [tools |-> 0, raised |-> TRUE]
         ELSE IF ~env.call_tool THEN [tools |-> 1, raised |-> TRUE]
         ELSE [tools |-> env.first.tool_calls,
               raised |-> ~env.second.ok \/ ~env.second.has_content]
    ELSE [tools |-> 0, raised |-> ~env.first.has_content]

\* MCPClient.process_query: the calls of session.call_tool it makes and
\* whether it raises; '\n'.join raises on a content that is None.
process_query(env) ==
    IF ~env.list_tools \/ ~env.first.ok THEN [tools |-> 0, raised |-> TRUE]
    ELSE IF env.first.finish_reason = "tool_calls" /\ env.first.tool_calls > 0
    THEN IF ~env.args THEN [tools |-> 0, raised |-> TRUE]
         ELSE IF ~env.call_tool THEN [tools |-> 1, raised |-> TRUE]
         ELSE [tools |-> 1, raised |-> ~env.second.ok \/ ~env.second.has_content]
    ELSE [tools |-> 0, raised |-> ~env.first.has_content]

\* MCPClient() before main has done anything.
NewClient ==
    [pc |-> "main", path |-> <<>>, server |-> FALSE, session |-> FALSE, failure |-> <<>>,
     line |-> <<>>, queries |-> 0, tools |-> 0, reported |-> 0, cleanups |-> 0,
     ended |-> "no"]

\* ------------------------------------------------------------ actions

\* The other programs before their first operation.
ExtInit ==
    /\ ctx = SharedContext
    /\ llmCalls = 0
    /\ lastAct = "none"
    /\ context = Context
    /\ acted = <<>>
    /\ scene = NoScene
    /\ advisor = <<>>
    /\ analysis = <<>>
    /\ direct = 0
    /\ health = <<>>
    /\ gitcall = <<>>
    /\ client = NewClient

Init ==
    /\ ExtInit
    /\ agents = EmptyRegistry
    /\ lastReg = EmptyRegistry
    /\ replaced = EmptyRegistry
    /\ call = <<>>
    /\ run = IdleRun
    /\ prev = <<>>
    /\ other = IdleRun
    /\ heap = <<>>
    /\ msgs = <<>>
    /\ added = <<>>

\* bus.register_agent(a), at start-up or later.
Register(a) ==
    /\ agents' = register_agent(agents, a)
    /\ lastReg' = [lastReg EXCEPT ![Pool[a].name] = a]
    /\ replaced' = IF lastReg[Pool[a].name] \notin {NoAgent, a}
                   THEN [replaced EXCEPT ![Pool[a].name] = lastReg[Pool[a].name]]
                   ELSE replaced
    /\ call' = <<>>
    /\ UNCHANGED <<run, prev, other, msgvars, extvars>>

\* The targets a caller of bus.send may name: the agent names, no target,
\* the empty string.
Targets == AgentNames \cup {None, ""}

\* bus.send(message) called directly, while no request has been handled.
BusSend(message) ==
    /\ run = IdleRun
    /\ \E o \in send(agents, message) :
          /\ call' = <<SendRecord(message, o)>>
          /\ agents' = o.registry
    /\ UNCHANGED <<lastReg, replaced, run, prev, other, msgvars, extvars>>

\* process_image from the request to the first bus.send (lines 18-41).
Begin(req) ==
    /\ run.pc \in {"idle", "done"}
    /\ prev' = IF run.pc = "done" THEN <<Summary(run)>> ELSE prev
    /\ call' = <<>>
    /\ \E x \in BeginNext(agents, req) : run' = x.run /\ agents' = x.registry
    /\ UNCHANGED <<lastReg, replaced, other, msgvars, extvars>>

\* One iteration of the while loop (lines 43-49).
LoopStep ==
    /\ run.pc = "loop"
    /\ LoopCondition(run.response)
    /\ Len(run.log) < HopCap
    /\ call' = <<>>
    /\ \E x \in LoopNext(agents, run) : run' = x.run /\ agents' = x.registry
    /\ UNCHANGED <<lastReg, replaced, prev, other, msgvars, extvars>>

\* The loop's exit and the success response (lines 51-61).
Finish ==
    /\ run.pc = "loop"
    /\ ~LoopCondition(run.response)
    /\ call' = <<>>
    /\ run' = FinishNext(run)
    /\ UNCHANGED <<agents, lastReg, replaced, prev, other, msgvars, extvars>>

Next ==
    \/ \E a \in AgentIds : Register(a)
    \/ \E t \in Targets : BusSend(MCPMessage("Caller", t, Image, <<>>))
    \/ \E req \in Requests : Begin(req)
    \/ LoopStep
    \/ Finish

Spec == Init /\ [][Next]_vars

\* ------------------------------------------------------------- server

\* The server of main.py: the three agents are registered before any
\* request, none is registered later, and two requests may be in progress
\* at once (run and other), each step of one between the steps of the
\* other.

\* The payload of the second request.
Image2 == <<"img2">>

OtherRequests == [shape : {"json", "files", "form"}, image : {<<>>, <<Image2>>}]

ServerInit ==
    /\ ExtInit
    /\ agents = DefaultRegistry
    /\ lastReg = DefaultRegistry
    /\ replaced = EmptyRegistry
    /\ call = <<>>
    /\ run = IdleRun
    /\ prev = <<>>
    /\ other = IdleRun
    /\ heap = <<>>
    /\ msgs = <<>>
    /\ added = <<>>

OtherBegin(req) ==
    /\ other.pc \in {"idle", "done"}
    /\ call' = <<>>
    /\ \E x \in BeginNext(agents, req) : other' = x.run /\ agents' = x.registry
    /\ UNCHANGED <<lastReg, replaced, run, prev, msgvars, extvars>>

OtherLoopStep ==
    /\ other.pc = "loop"
    /\ LoopCondition(other.response)
    /\ Len(other.log) < HopCap
    /\ call' = <<>>
    /\ \E x \in LoopNext(agents, other) : other' = x.run /\ agents' = x.registry
    /\ UNCHANGED <<lastReg, replaced, run, prev, msgvars, extvars>>

OtherFinish ==
    /\ other.pc = "loop"
    /\ ~LoopCondition(other.response)
    /\ call' = <<>>
    /\ other' = FinishNext(other)
    /\ UNCHANGED <<agents, lastReg, replaced, run, prev, msgvars, extvars>>

ServerNext ==
    \/ \E t \in Targets : BusSend(MCPMessage("Caller", t, Image, <<>>))
    \/ \E req \in Requests : Begin(req)
    \/ LoopStep
    \/ Finish
    \/ \E req \in OtherRequests : OtherBegin(req)
    \/ OtherLoopStep
    \/ OtherFinish

SpecServer == ServerInit /\ [][ServerNext]_vars

\* ------------------------------------------------------ static routing

\* A bus whose registrations are over before the first request, with any
\* agents whose routing has no cycle, and a handler that runs on: Flask
\* runs process_image to its return, and every call of process returns or
\* raises.

Registered(registry) == {n \in AgentNames : registry[n] # NoAgent}

\* The name the agent registered under n routes to, when that name is
\* registered too.
Routes(registry) ==
    {<<n, Pool[registry[n]].next>> : n \in
        {m \in Registered(registry) : Pool[registry[m]].next \in Registered(registry)}}

\* The names reached from n in one to k handoffs.
RECURSIVE Reach(_, _, _)
Reach(registry, n, k) ==
    IF k = 0 THEN {}
    ELSE LET step == {e[2] : e \in {f \in Routes(registry) : f[1] = n}} IN
         step \cup UNION {Reach(registry, m, k - 1) : m \in step}

Acyclic(registry) ==
    \A n \in Registered(registry) : n \notin Reach(registry, n, Cardinality(AgentNames))

\* The registries start-up registrations may leave.
Registries ==
    {r \in [AgentNames -> AgentIds \cup {NoAgent}] :
        \A n \in AgentNames : r[n] # NoAgent => Pool[r[n]].name = n}

StaticInit ==
    /\ ExtInit
    /\ agents \in {r \in Registries : Acyclic(r)}
    /\ lastReg = agents
    /\ replaced = EmptyRegistry
    /\ call = <<>>
    /\ run = IdleRun
    /\ prev = <<>>
    /\ other = IdleRun
    /\ heap = <<>>
    /\ msgs = <<>>
    /\ added = <<>>

StaticNext ==
    \/ \E req \in Requests : Begin(req)
    \/ LoopStep
    \/ Finish

SpecStatic ==
    StaticInit /\ [][StaticNext]_vars /\ WF_vars(LoopStep) /\ WF_vars(Finish)

\* ----------------------------------------------------------- messages

\* Construction of messages and writes into their metadata, with the
\* dicts as objects: heap[i] is the set of keys of dict i, msgs[i] the
\* dict message i holds and whether it was constructed without metadata.

\* A caller builds a dict with the keys K.
NewDict(K) ==
    /\ Len(heap) < MaxDicts
    /\ msgs = <<>>
    /\ heap' = Append(heap, K)
    /\ UNCHANGED <<agents, lastReg, replaced, call, run, prev, other, msgs, added, extvars>>

\* MCPMessage(source, target, content, metadata)
Construct(metadata) ==
    /\ Len(msgs) < MaxMsgs
    /\ LET m == metadata_or(heap, metadata) IN
       /\ heap' = m.heap
       /\ msgs' = Append(msgs, [ref |-> m.ref, omitted |-> metadata = <<>>])
    /\ added' = Append(added, {})
    /\ UNCHANGED <<agents, lastReg, replaced, call, run, prev, other, extvars>>

\* msgs[i].metadata[k] = value
SetMetadata(i, k) ==
    /\ k \notin heap[msgs[i].ref]
    /\ heap' = [heap EXCEPT ![msgs[i].ref] = @ \cup {k}]
    /\ added' = [added EXCEPT ![i] = @ \cup {k}]
    /\ UNCHANGED <<agents, lastReg, replaced, call, run, prev, other, msgs, extvars>>

MessageNext ==
    \/ \E K \in SUBSET Keys : NewDict(K)
    \/ \E metadata \in {<<>>} \cup {<<i>> : i \in DOMAIN heap} : Construct(metadata)
    \/ \E i \in DOMAIN msgs, k \in Keys : SetMetadata(i, k)

SpecMessage == Init /\ [][MessageNext]_vars

\* ------------------------------------------------------ mcp_assistant

\* Most chat completions the model follows.
MaxCalls == 2

\* ctx.update("user_request", value) by the script.
SetRequest(value) ==
    /\ ctx' = update(ctx, "user_request", value)
    /\ lastAct' = "update"
    /\ UNCHANGED <<busvars, msgvars, llmCalls, toyvars, advvars, gitvars, clivars>>

\* ctx.update("document_text", value) by the script.
SetDocument(value) ==
    /\ ctx' = update(ctx, "document_text", value)
    /\ lastAct' = "update"
    /\ UNCHANGED <<busvars, msgvars, llmCalls, toyvars, advvars, gitvars, clivars>>

\* planner.act()
PlannerAct ==
    /\ ctx' = Planner_act(ctx)
    /\ lastAct' = "Planner"
    /\ UNCHANGED <<busvars, msgvars, llmCalls, toyvars, advvars, gitvars, clivars>>

\* executor.act()
ExecutorAct ==
    /\ \E o \in Executor_act(ctx) :
          /\ llmCalls + o.calls <= MaxCalls
          /\ ctx' = o.data
          /\ llmCalls' = llmCalls + o.calls
    /\ lastAct' = "Executor"
    /\ UNCHANGED <<busvars, msgvars, toyvars, advvars, gitvars, clivars>>

AssistantNext ==
    \/ \E value \in UserRequests : SetRequest(value)
    \/ \E value \in Documents : SetDocument(value)
    \/ PlannerAct
    \/ ExecutorAct

SpecAssistant == Init /\ [][AssistantNext]_vars

\* --------------------------------------------------------- mcp_basics

\* Most calls of act the model follows.
MaxActs == 6

\* Planner("Planner", context).act()
BasicPlannerAct ==
    /\ Len(acted) < MaxActs
    /\ context' = BasicPlanner_act(context)
    /\ acted' = Append(acted, "Planner")
    /\ UNCHANGED <<busvars, msgvars, asstvars, advvars, gitvars, clivars>>

\* Executor("Executor", context).act()
BasicExecutorAct ==
    /\ Len(acted) < MaxActs
    /\ context' = BasicExecutor_act(context)
    /\ acted' = Append(acted, "Executor")
    /\ UNCHANGED <<busvars, msgvars, asstvars, advvars, gitvars, clivars>>

BasicsNext ==
    \/ BasicPlannerAct
    \/ BasicExecutorAct

SpecBasics == Init /\ [][BasicsNext]_vars

\* ----------------------------------------------------- blender advisor

\* Most calls of the partial analyses between two calls of analyze_scene.
MaxDirect == 2

\* The caller obtains the scene data.
LoadScene(scene_data) ==
    /\ scene = NoScene
    /\ advisor = <<>>
    /\ analysis = <<>>
    /\ direct = 0
    /\ scene' = scene_data
    /\ UNCHANGED <<busvars, msgvars, asstvars, toyvars, advisor, analysis, direct, health, gitvars, clivars>>

\* advisor.analyze_scene(scene)
AnalyzeScene ==
    /\ LET a == analyze_scene(advisor, scene) IN
       /\ advisor' = a.self
       /\ analysis' = <<a.ret>>
    /\ direct' = 0
    /\ UNCHANGED <<busvars, msgvars, asstvars, toyvars, scene, health, gitvars, clivars>>

\* advisor.check_topology_health(scene)
CheckTopology ==
    /\ direct < MaxDirect
    /\ advisor' = check_topology_health(advisor, scene).self
    /\ direct' = direct + 1
    /\ UNCHANGED <<busvars, msgvars, asstvars, toyvars, scene, analysis, health, gitvars, clivars>>

\* advisor.get_optimization_hints(scene)
OptimizationHints ==
    /\ direct < MaxDirect
    /\ advisor' = get_optimization_hints(advisor, scene).self
    /\ direct' = direct + 1
    /\ UNCHANGED <<busvars, msgvars, asstvars, toyvars, scene, analysis, health, gitvars, clivars>>

\* advisor.review_modifier_stack(scene)
ReviewModifiers ==
    /\ direct < MaxDirect
    /\ advisor' = review_modifier_stack(advisor, scene).self
    /\ direct' = direct + 1
    /\ UNCHANGED <<busvars, msgvars, asstvars, toyvars, scene, analysis, health, gitvars, clivars>>

AdvisorNext ==
    \/ \E scene_data \in Scenes : LoadScene(scene_data)
    \/ AnalyzeScene
    \/ CheckTopology
    \/ OptimizationHints
    \/ ReviewModifiers

SpecAdvisor == Init /\ [][AdvisorNext]_vars

\* The health score on the lists of suggestions of up to MaxSuggestions
\* entries, of any severities.

MaxSuggestions == 5

\* self.suggestions.append(Suggestion(..., severity, ...))
Suggest(severity) ==
    /\ Len(advisor) < MaxSuggestions
    /\ advisor' = Append(advisor, Suggestion("topology", severity, "Issue", <<"Cube">>))
    /\ UNCHANGED <<busvars, msgvars, asstvars, toyvars, scene, analysis, direct, health, gitvars, clivars>>

\* self._calculate_health_score()
HealthScore ==
    /\ health' = <<_calculate_health_score(advisor)>>
    /\ UNCHANGED <<busvars, msgvars, asstvars, toyvars, scene, advisor, analysis, direct, gitvars, clivars>>

HealthNext ==
    \/ \E severity \in DOMAIN SeverityLevel : Suggest(severity)
    \/ HealthScore

SpecHealth == Init /\ [][HealthNext]_vars

\* --------------------------------------------------- github assistant

\* file_changes(base_dir, base_branch, include_diff, max_diff_lines); the
\* calls share no state, so the model follows one call.
FileChanges(git, include_diff, max_diff_lines) ==
    /\ gitcall = <<>>
    /\ gitcall' = <<[fn |-> "file_changes", git |-> git, include_diff |-> include_diff,
                     max_diff_lines |-> max_diff_lines,
                     ret |-> file_changes(git, include_diff, max_diff_lines)]>>
    /\ UNCHANGED <<busvars, msgvars, asstvars, toyvars, advvars, clivars>>

\* analyze_file_changes(base_dir, base_branch, include_diff, max_diff_lines)
AnalyzeFileChanges(base_dir, is_dir, base_branch, git, include_diff, max_diff_lines) ==
    /\ gitcall = <<>>
    /\ gitcall' = <<[fn |-> "analyze_file_changes", git |-> git,
                     include_diff |-> include_diff, max_diff_lines |-> max_diff_lines,
                     ret |-> analyze_file_changes(base_dir, is_dir, base_branch, git,
                                                  include_diff, max_diff_lines)]>>
    /\ UNCHANGED <<busvars, msgvars, asstvars, toyvars, advvars, clivars>>

GitNext ==
    \/ \E git \in GitRuns, include_diff \in BOOLEAN, max_diff_lines \in -1..MaxDiffLines :
          FileChanges(git, include_diff, max_diff_lines)
    \/ \E base_dir \in {"", "repo"}, is_dir \in BOOLEAN, base_branch \in {"", "main"},
          git \in GitRuns, include_diff \in BOOLEAN, max_diff_lines \in -1..MaxDiffLines :
          AnalyzeFileChanges(base_dir, is_dir, base_branch, git, include_diff, max_diff_lines)

SpecGit == Init /\ [][GitNext]_vars

\* --------------------------------------------------------- mcp client

\* Most queries and most errors reported the model follows.
MaxQueries == 2
MaxReported == 2

\* main up to connect_to_server: without an argument it prints the usage
\* and exits, before any client is made.
Main(argv) ==
    /\ client.pc = "main"
    /\ client' = IF argv = <<>>
                 THEN [client EXCEPT !.pc = "exit"]
                 ELSE [client EXCEPT !.pc = "connect", !.path = argv[1]]
    /\ UNCHANGED <<busvars, msgvars, asstvars, toyvars, advvars, gitvars>>

\* await client.connect_to_server(sys.argv[1])
Connect(started, initialized) ==
    /\ client.pc = "connect"
    /\ LET c == connect_to_server(client.path, started, initialized) IN
       client' = [client EXCEPT !.server = c.server, !.session = c.session,
                                !.failure = c.raised,
                                !.pc = IF c.raised # <<>> THEN "cleanup" ELSE "chat"]
    /\ UNCHANGED <<busvars, msgvars, asstvars, toyvars, advvars, gitvars>>

\* chat_loop: input() returns line, which is tested for quit.
Input(line) ==
    /\ client.pc = "chat"
    /\ lower(strip(line)) # <<"quit">> => client.queries < MaxQueries
    /\ client' = IF lower(strip(line)) = <<"quit">>
                 THEN [client EXCEPT !.line = line, !.pc = "cleanup", !.ended = "break"]
                 ELSE [client EXCEPT !.line = line, !.pc = "query", !.tools = 0]
    /\ UNCHANGED <<busvars, msgvars, asstvars, toyvars, advvars, gitvars>>

\* chat_loop: input() raises (EOFError), which the loop reports.
InputFails ==
    /\ client.pc = "chat"
    /\ client.reported < MaxReported
    /\ client' = [client EXCEPT !.reported = @ + 1]
    /\ UNCHANGED <<busvars, msgvars, asstvars, toyvars, advvars, gitvars>>

\* chat_loop: await self.process_query(query), then the print of the
\* response or of the error.
Query(env) ==
    /\ client.pc = "query"
    /\ LET q == process_query(env) IN
       /\ q.raised => client.reported < MaxReported
       /\ client' = [client EXCEPT !.pc = "chat", !.queries = @ + 1, !.tools = q.tools,
                                   !.reported = IF q.raised THEN @ + 1 ELSE @]
    /\ UNCHANGED <<busvars, msgvars, asstvars, toyvars, advvars, gitvars>>

\* finally: await client.cleanup()
Cleanup ==
    /\ client.pc = "cleanup"
    /\ client' = [client EXCEPT !.pc = "done", !.cleanups = @ + 1,
                                !.server = FALSE, !.session = FALSE]
    /\ UNCHANGED <<busvars, msgvars, asstvars, toyvars, advvars, gitvars>>

ClientNext ==
    \/ \E argv \in {<<>>} \cup {<<path>> : path \in Paths} : Main(argv)
    \/ \E started \in BOOLEAN, initialized \in BOOLEAN : Connect(started, initialized)
    \/ \E line \in Lines : Input(line)
    \/ InputFails
    \/ \E env \in QueryRuns : Query(env)
    \/ Cleanup

SpecClient == Init /\ [][ClientNext]_vars

\* ----------------------------------------------------------- helpers

\* The calls of process made in a run, in order.
RECURSIVE Calls(_)
Calls(log) == IF log = <<>> THEN <<>> ELSE log[1].invoked \o Calls(Tail(log))

Elements(seq) == {seq[i] : i \in DOMAIN seq}

IsDone == run.pc = "done"
Reply == run.reply[1]
Succeeded == IsDone /\ Reply.code \in 200..299

\* ------------------------------------------------------------- claims

\* C1 (P1 routing): a send whose target names a registered agent calls
\* process of exactly that agent, exactly once, on the message sent, and
\* returns what that call returned; the same for every send of a run.
C1_Routing ==
    /\ call # <<>> /\ call[1].registered # NoAgent =>
          /\ Len(call[1].invoked) = 1
          /\ call[1].invoked[1].agent = call[1].registered
          /\ call[1].invoked[1].message = call[1].message
          /\ call[1].out = call[1].invoked[1].out
    /\ \A i \in DOMAIN run.log :
          run.log[i].invoked # <<>> =>
             /\ Len(run.log[i].invoked) = 1
             /\ Pool[run.log[i].invoked[1].agent].name = run.log[i].target
             /\ run.log[i].out = run.log[i].invoked[1].out

C1_Witness ==
    /\ call # <<>>
    /\ call[1].registered # NoAgent
    /\ call[1].out.value # <<>>
    /\ Cardinality({n \in AgentNames : agents[n] # NoAgent}) = 3

\* C2 (P2 unknown target): a send whose target is no key of the registry
\* calls no agent and fails with a TargetNotFound error naming the target.
C2_UnknownTarget ==
    call # <<>> /\ call[1].registered = NoAgent =>
       /\ call[1].invoked = <<>>
       /\ call[1].out.raised # <<>>
       /\ Str(call[1].target) \in Elements(call[1].out.raised[1].text)
       /\ call[1].out.raised[1].type = "TargetNotFound"

\* C3 (P5 registry overwrite): the registry holds, under each name, the
\* agent last registered under it and nothing else, and a send calls only
\* that agent, never one that was displaced under the name.
C3_RegistryOverwrite ==
    /\ \A n \in AgentNames : agents[n] = lastReg[n]
    /\ call # <<>> =>
          \A i \in DOMAIN call[1].invoked :
             /\ call[1].invoked[i].agent = call[1].latest
             /\ call[1].displaced # NoAgent =>
                   call[1].invoked[i].agent # call[1].displaced

C3_Witness ==
    /\ call # <<>>
    /\ call[1].displaced # NoAgent
    /\ call[1].invoked # <<>>
    /\ \E n \in AgentNames \ {call[1].target} : replaced[n] # NoAgent

\* C4 (P3 terminal detection): no send follows a returned message whose
\* target is empty or None; when the run ends on such a message the trace
\* has one entry per call of process made in the run, the response carries
\* that trace, and the last entry's content is the content the last agent
\* returned.
C4_TerminalDetection ==
    /\ \A i \in DOMAIN run.log :
          i < Len(run.log) =>
             /\ run.log[i].out.value # <<>>
             /\ Truthy(run.log[i].out.value[1].target)
    /\ IsDone /\ run.response # <<>> /\ ~Truthy(run.response[1].target) =>
          /\ Succeeded
          /\ Len(run.results) = Len(Calls(run.log))
          /\ Reply.body.results = run.results
          /\ run.results[Len(run.results)].content =
                Calls(run.log)[Len(Calls(run.log))].out.value[1].content

C4_Witness ==
    /\ IsDone
    /\ run.response # <<>>
    /\ run.response[1].target = ""
    /\ Len(run.results) = 2

\* C5 (Scenario A): when the run called agent p, which routes to q's name,
\* and then q, which returned a message without target, the response is
\* the success response whose trace is p's message then q's message and
\* nothing else; q was given p's message as p returned it, and p the
\* request's content.
C5_ScenarioA ==
    LET calls == Calls(run.log) IN
    (/\ IsDone
     /\ Len(calls) = 2
     /\ calls[2].out.value # <<>>
     /\ ~Truthy(calls[2].out.value[1].target))
    =>
    LET p == calls[1].agent
        q == calls[2].agent
        c1 == Respond(p, run.data[1])
        c2 == Respond(q, c1) IN
    /\ Succeeded
    /\ Reply.body.keys = {"status", "results"}
    /\ Reply.body.results =
          << [source |-> Pool[p].name, target |-> Pool[q].name, content |-> c1],
             [source |-> Pool[q].name, target |-> Pool[q].next, content |-> c2] >>
    /\ calls[1].message.content = run.data[1]
    /\ calls[2].message = calls[1].out.value[1]

C5_Witness ==
    /\ Succeeded
    /\ Len(Calls(run.log)) = 2
    /\ Len(Reply.body.results) = 2
    /\ Reply.body.results[2].content = <<"img", "PerceptionAgent", "Last">>

\* C6 (P4 cycle bound): no run makes more than MaxHops sends.
C6_CycleBound == Len(run.log) <= MaxHops

\* C7 (Scenario B): a run whose entry target is not registered makes that
\* one send, calls no agent, and ends with a TargetNotFound failure naming
\* the target and carrying an empty trace.
C7_ScenarioB ==
    IsDone /\ run.log # <<>> /\ run.log[1].invoked = <<>> =>
       /\ Len(run.log) = 1
       /\ ~Succeeded
       /\ Str(run.log[1].target) \in Elements(Reply.body.error)
       /\ run.log[1].out.raised[1].type = "TargetNotFound"
       /\ "results" \in Reply.body.keys
       /\ Reply.body.results = <<>>

\* C8 (Scenario C): when an agent raises at send k of a run, the run ends
\* with a failure citing the agent's name and carrying the trace of the
\* k-1 hops completed before.
C8_ScenarioC ==
    (/\ IsDone
     /\ run.log # <<>>
     /\ run.log[Len(run.log)].invoked # <<>>
     /\ run.log[Len(run.log)].out.raised # <<>>)
    =>
    /\ ~Succeeded
    /\ Pool[run.log[Len(run.log)].invoked[1].agent].name \in Elements(Reply.body.error)
    /\ "results" \in Reply.body.keys
    /\ Len(Reply.body.results) = Len(run.log) - 1
    /\ Reply.body.results = run.results

\* C9: a run in which a target was missing, or an agent raised or returned
\* no message, does not end with a success response.
C9_NoSilentFailure ==
    IsDone /\ Kind(run) \in {"TargetNotFound", "AgentFailure"} =>
       /\ ~Succeeded
       /\ Reply.body.status # "success"

\* C10: two runs that ended differently (finished, or failed of different
\* kinds) have responses that differ in more than the error's text: in the
\* status code or in the keys of the body.
C10_StructuredKinds ==
    IsDone /\ prev # <<>> /\ prev[1].kind # Kind(run) =>
       <<prev[1].code, prev[1].keys>> # <<Reply.code, Reply.body.keys>>

\* C11 (MalformedPayload): a request without image content, in any of
\* the three shapes, is answered 400 and no send is made for it.
C11_MalformedPayload ==
    IsDone /\ NoData(run.data) =>
       /\ Reply.code = 400
       /\ run.log = <<>>

\* C12: a finished request has one response: either a 2xx response with
\* the trace, given only when a message without target was reached, or a
\* non-2xx response whose body is {error}.
C12_OneResponse ==
    IsDone =>
       /\ Len(run.reply) = 1
       /\ \/ /\ Succeeded
             /\ "results" \in Reply.body.keys
             /\ Reply.body.results = run.results
             /\ run.response # <<>>
             /\ ~Truthy(run.response[1].target)
             /\ Len(run.results) = Len(run.log)
          \/ /\ ~Succeeded
             /\ Reply.body.keys = {"error"}

\* The trace of the three stages on the request content c.
StageTrace(c) ==
    << [source |-> "Perception", target |-> "Planning",
        content |-> Respond(1, c)],
       [source |-> "Planning", target |-> "Control",
        content |-> Respond(2, Respond(1, c))],
       [source |-> "Control", target |-> None,
        content |-> Respond(3, Respond(2, Respond(1, c)))] >>

ThreeStages(r) ==
    r.pc = "done" /\ r.reply[1].code \in 200..299 =>
       /\ Len(Calls(r.log)) = 3
       /\ \A i \in 1..3 : Calls(r.log)[i].agent = i
       /\ Calls(r.log)[1].message.source = "Sensor"
       /\ Calls(r.log)[1].message.target = "Perception"
       /\ r.reply[1].body.results = StageTrace(r.data[1])

\* C13 (three-stage pipeline): with the three default agents registered,
\* a successful run enters at Perception from source Sensor, calls
\* Perception, Planning and Control once each in that order, and its trace
\* is exactly Perception->Planning, Planning->Control, Control->None.
C13_ThreeStagePipeline == ThreeStages(run) /\ ThreeStages(other)

C13_Witness ==
    /\ Succeeded
    /\ Len(Reply.body.results) = 3
    /\ agents = DefaultRegistry

\* C14 (sequential hops): every send of a run makes at most one call of
\* process; the send after the first is made for the message the send
\* before it returned, so after that call ended; and a run has made at
\* most one send per message appended to its trace, plus the entry send.
C14_SequentialHops ==
    /\ \A i \in DOMAIN run.log :
          /\ Len(run.log[i].invoked) <= 1
          /\ i = 1 => run.log[i].target = EntryMessage(run.data[1]).target
          /\ i > 1 =>
                /\ run.log[i - 1].out.value # <<>>
                /\ run.log[i].target = run.log[i - 1].out.value[1].target
                /\ run.log[i].invoked # <<>> =>
                      run.log[i].invoked[1].message = run.log[i - 1].out.value[1]
    /\ Len(Calls(run.log)) <= Len(run.log)
    /\ run.pc = "loop" => Len(run.log) = Len(run.results) + 1

C14_Witness ==
    /\ run.pc = "loop"
    /\ Len(run.log) = 3
    /\ Len(Calls(run.log)) = 3

\* The run r rests on its own data and on the results its agents gave it:
\* every call is made on its entry message or on the message its call
\* before returned, every result is one process gives for that message,
\* its trace is made of those results, and its response is the one they
\* determine.
IndependentRun(r) ==
    /\ \A i \in DOMAIN r.log :
          /\ Len(r.log[i].invoked) = 1
          /\ r.log[i].invoked[1].message =
                IF i = 1 THEN EntryMessage(r.data[1]) ELSE r.log[i - 1].out.value[1]
          /\ r.log[i].out \in process(r.log[i].invoked[1].agent, r.log[i].invoked[1].message)
    /\ \A i \in DOMAIN r.results :
          /\ i \in DOMAIN r.log
          /\ r.results[i] = HopEntry(r.log[i].out.value[1])
    /\ r.pc = "done" /\ r.log # <<>> =>
          r.reply[1] =
             IF r.log[Len(r.log)].out.raised # <<>>
             THEN Handler(r.log[Len(r.log)].out.raised[1])
             ELSE SuccessReply([i \in 1..Len(r.log) |-> HopEntry(r.log[i].out.value[1])])

\* C15 (concurrent runs): with two requests in progress on the same bus,
\* each one's trace holds only the hops of its own message chain and each
\* one's response is the one its own data and agent results determine.
C15_IndependentRuns == IndependentRun(run) /\ IndependentRun(other)

C15_Witness ==
    /\ run.pc = "loop"
    /\ Len(run.results) = 1
    /\ other.pc = "loop"
    /\ Len(other.results) = 2
    /\ run.data # other.data

\* C16 (pure router): in the server no send, passed or failed, changes the
\* registry: it holds the three start-up agents in every state.
C16_PureRouter == agents = DefaultRegistry

C16_Witness ==
    /\ Succeeded
    /\ other.pc = "done"
    /\ other.log # <<>>
    /\ other.log[Len(other.log)].out.raised # <<>>

\* C17 (register_agent idempotent): on every registry and for every agent,
\* registering the agent a second time gives the registry of the first
\* time, which holds the agent under its name and, under every other name,
\* what was there before.
C17_RegisterIdempotent ==
    \A a \in AgentIds :
       LET once == register_agent(agents, a) IN
       /\ register_agent(once, a) = once
       /\ once[Pool[a].name] = a
       /\ \A n \in AgentNames \ {Pool[a].name} : once[n] = agents[n]

C17_Witness ==
    /\ \A n \in AgentNames : agents[n] # NoAgent
    /\ \E n \in AgentNames : replaced[n] # NoAgent

\* C18 (metadata): every message holds a dict; one constructed without
\* metadata holds a dict of its own, other than that of any other message
\* constructed without metadata, with exactly the keys written through
\* the messages holding that dict (none at first, and none written
\* through another message constructed without metadata).
C18_Metadata ==
    \A i \in DOMAIN msgs :
       /\ msgs[i].ref \in DOMAIN heap
       /\ msgs[i].omitted =>
             /\ heap[msgs[i].ref] =
                   UNION {added[j] : j \in {k \in DOMAIN msgs : msgs[k].ref = msgs[i].ref}}
             /\ \A j \in DOMAIN msgs \ {i} :
                   msgs[j].omitted => msgs[j].ref # msgs[i].ref

C18_Witness ==
    /\ Len(msgs) >= 2
    /\ msgs[1].omitted
    /\ msgs[2].omitted
    /\ added[1] # {}
    /\ heap[msgs[2].ref] = {}

\* Every call of process made: by the two requests and by a direct send.
AllCalls ==
    Calls(run.log) \o Calls(other.log) \o (IF call = <<>> THEN <<>> ELSE call[1].invoked)

C20_SourceIsAgentName ==
    \A i \in DOMAIN AllCalls :
       AllCalls[i].out.value # <<>> =>
          /\ AllCalls[i].out.value[1].source = Pool[AllCalls[i].agent].name
          /\ AllCalls[i].out.value[1].source = AllCalls[i].message.target
          /\ ~Truthy(AllCalls[i].out.value[1].target) <=>
                Pool[AllCalls[i].agent].cls = "ControlAgent"

C20_Witness ==
    /\ other.pc = "done"
    /\ other.reply[1].code = 200
    /\ Len(Calls(other.log)) = 3
    /\ call = <<>>

\* C21 (missing target mid-run): a send of a run that finds no agent under
\* the target is the last send of the run, which is then over with a
\* failure; the sends before it each called an agent, and no send for the
\* same message follows it.
C21_NotFoundEndsRun ==
    \A i \in DOMAIN run.log :
       run.log[i].invoked = <<>> =>
          /\ i = Len(run.log)
          /\ IsDone
          /\ ~Succeeded
          /\ Len(Calls(run.log)) = i - 1

C21_Witness ==
    /\ IsDone
    /\ Len(run.log) = 3
    /\ run.log[3].invoked = <<>>
    /\ Len(Calls(run.log)) = 2

IsPrefix(s, t) == Len(s) <= Len(t) /\ \A i \in DOMAIN s : s[i] = t[i]

\* The entries of a trace follow one another.
Chained(results) ==
    /\ results # <<>> => results[1].source = EntryMessage(<<>>).target
    /\ \A i \in DOMAIN results :
          i < Len(results) =>
             /\ results[i + 1].source = results[i].target
             /\ Truthy(results[i].target)

\* C22 (trace chain continuity): in every state the trace of the run is
\* chained (each entry's source is the target of the entry before it, the
\* first one's source is the entry agent's name, every entry but the last
\* has a target), and a step of a run in progress leaves the entries
\* recorded as they are, adding new ones after them only.
C22_TraceChain ==
    /\ [](Chained(run.results))
    /\ [][run.pc = "loop" => IsPrefix(run.results, run'.results)]_vars

C22_Witness ==
    /\ run.pc = "loop"
    /\ Len(run.results) = 4
    /\ run.results[3].source = "Perception"

\* C23 (termination without cycles): with registrations over, routing
\* without cycle and every call of process returning or raising, a run
\* makes at most as many hops (calls of process, entries of its trace) as
\* there are registered agents, and a run begun comes to its end.
C23_Termination ==
    /\ [](/\ Len(Calls(run.log)) <= Cardinality(Registered(agents))
          /\ Len(run.results) <= Cardinality(Registered(agents)))
    /\ (run.pc = "loop") ~> (run.pc = "done")

C23_Witness ==
    /\ IsDone
    /\ Cardinality(Registered(agents)) = 3
    /\ Len(Calls(run.log)) = 3
    /\ Len(run.results) = 3

\* C24 (mcp_assistant shared context): a step that changes task_result or
\* requests a chat completion is a step of Executor.act taken with
\* task_plan and document_text both non-empty; an Executor.act taken with
\* no plan leaves the context as it is and requests no completion; and a
\* non-empty task_result is only found with a plan in the context.
C24_ResultNeedsPlan ==
    /\ [](Truthy(ctx.task_result) => ctx.task_plan = PlanText)
    /\ [][ctx'.task_result # ctx.task_result \/ llmCalls' # llmCalls =>
             /\ lastAct' = "Executor"
             /\ Truthy(ctx.task_plan)
             /\ Truthy(ctx.document_text)]_vars
    /\ [][lastAct' = "Executor" /\ ~Truthy(ctx.task_plan) =>
             ctx' = ctx /\ llmCalls' = llmCalls]_vars

C24_Witness ==
    /\ ctx.task_result = "answer"
    /\ ctx.document_text = ""
    /\ llmCalls = 2
    /\ lastAct = "Executor"

\* The request has the word, whatever the case of its letters.
Mentions(request, word) ==
    \E i \in DOMAIN request :
       LowerWord(request[i]) = word \/ word \in Within(LowerWord(request[i]))

\* C25 (mcp_assistant Planner.act): on the context as it is, Planner.act
\* sets task_plan to the plan when the request mentions both 'summarize'
\* and 'extract', in any case of letters, and gives the context back as it
\* is when it does not; no other key changes, and a second call gives what
\* the first gave.  A step of planner.act does that to the context.
C25_PlannerFrame ==
    /\ [](LET once == Planner_act(ctx) IN
          /\ once = IF Mentions(ctx.user_request, "summarize")
                       /\ Mentions(ctx.user_request, "extract")
                    THEN [ctx EXCEPT !.task_plan = PlanText]
                    ELSE ctx
          /\ Planner_act(once) = once)
    /\ [][lastAct' = "Planner" =>
             /\ ctx'.user_request = ctx.user_request
             /\ ctx'.document_text = ctx.document_text
             /\ ctx'.task_result = ctx.task_result
             /\ llmCalls' = llmCalls
             /\ ctx'.task_plan # ctx.task_plan =>
                   /\ Mentions(ctx.user_request, "summarize")
                   /\ Mentions(ctx.user_request, "extract")]_vars

C25_Witness ==
    /\ lastAct = "Planner"
    /\ ctx.user_request = <<"EXTRACT", "Summarize">>
    /\ ctx.task_plan = PlanText
    /\ ctx.task_result = ""

\* C26 (mcp_basics): after any calls of Planner.act and Executor.act, task
\* is None or 'Plan step A' and state and memory are the empty dicts of
\* the start; Planner then Executor from the start gives the start again;
\* a Planner.act changes the context only from task None, to 'Plan step
\* A', and an Executor.act only from 'Plan step A', to None.
C26_ToyMachine ==
    /\ [](/\ context.task \in {None, "Plan step A"}
          /\ context.state = {}
          /\ context.memory = {}
          /\ acted = <<"Planner", "Executor">> => context = Context)
    /\ [][LET who == acted'[Len(acted')] IN
          /\ who = "Planner" /\ context' # context =>
                context.task = None /\ context' = [context EXCEPT !.task = "Plan step A"]
          /\ who = "Executor" /\ context' # context =>
                context.task = "Plan step A" /\ context' = [context EXCEPT !.task = None]
          /\ who = "Planner" /\ context.task = None => context'.task = "Plan step A"
          /\ who = "Executor" /\ context.task = "Plan step A" => context'.task = None]_vars

C26_Witness ==
    /\ acted = <<"Planner", "Executor", "Executor", "Planner", "Planner">>
    /\ context.task = "Plan step A"

\* The counts of an analysis agree.
Consistent(r) ==
    /\ Len(r.all_suggestions) = r.summary.total_suggestions
    /\ Len(r.all_suggestions) =
          r.severity_counts["info"] + r.severity_counts["warning"]
          + r.severity_counts["error"] + r.severity_counts["critical"]
    /\ Len(r.all_suggestions) =
          r.topology_health.total_issues + r.optimization_hints.total_suggestions
          + r.modifier_review.total_suggestions

\* C27 (advisor counts): whatever the advisor holds from the calls before,
\* the result of analyze_scene on the scene has as many entries in
\* all_suggestions as summary.total_suggestions says, as the four
\* severity_counts add up to and as the three partial totals add up to;
\* a second analyze_scene on the same scene returns the same result; and
\* the result last returned has these counts.
C27_CountsAgree ==
    LET a == analyze_scene(advisor, scene) IN
    /\ Consistent(a.ret)
    /\ analyze_scene(a.self, scene).ret = a.ret
    /\ analysis # <<>> => Consistent(analysis[1]) /\ analysis[1] = a.ret

C27_Witness ==
    /\ analysis # <<>>
    /\ direct = 2
    /\ Len(advisor) > Len(analysis[1].all_suggestions)
    /\ analysis[1].topology_health.total_issues >= 5
    /\ analysis[1].optimization_hints.total_suggestions >= 3
    /\ analysis[1].modifier_review.total_suggestions >= 3

\* The number of suggestions of a severity in a list.
Of(self, severity) == Cardinality({i \in DOMAIN self : self[i].severity = severity})

\* C28 (health score): the score of a list of suggestions is 100 for the
\* empty list and else 100 - (25 critical + 15 error + 8 warning + 2 info)
\* or 0 if that is negative, so a number from 0 to 100; the score computed
\* is such a number; and adding a suggestion never raises the score.
C28_HealthScore ==
    /\ [](LET penalty == 25 * Of(advisor, "CRITICAL") + 15 * Of(advisor, "ERROR")
                         + 8 * Of(advisor, "WARNING") + 2 * Of(advisor, "INFO")
              score == _calculate_health_score(advisor) IN
          /\ score \in 0..100
          /\ advisor = <<>> => score = 100
          /\ advisor # <<>> =>
                score = IF 100 - penalty > 0 THEN 100 - penalty ELSE 0
          /\ health # <<>> => health[1] \in 0..100)
    /\ [][Len(advisor') = Len(advisor) + 1 =>
             _calculate_health_score(advisor') <= _calculate_health_score(advisor)]_vars

C28_Witness ==
    /\ health = <<0>>
    /\ Len(advisor) = 5
    /\ _calculate_health_score(advisor) = 0
    /\ Of(advisor, "CRITICAL") = 4
    /\ Of(advisor, "INFO") = 1

\* C29 (git diff truncation): a call made with include_diff and a
\* max_diff_lines of at least 1, whose runs of git returned, returns a
\* 'diff' of at most max_diff_lines lines, which begins with the first
\* max_diff_lines lines of the full diff when that has more, and a
\* total_lines that is the number of lines of the full diff; a call in
\* which a run of git raised returns the JSON object {error}.
C29_DiffTruncation ==
    gitcall # <<>> =>
       LET c == gitcall[1] IN
       /\ (c.git.diff.raised # <<>> \/ c.git.stat.raised # <<>>)
          /\ ~(c.fn = "analyze_file_changes" /\ c.ret.raised # <<>>) =>
             /\ c.ret.raised = <<>>
             /\ c.ret.value[1].keys = {"error"}
       /\ (/\ c.git.diff.raised = <<>>
           /\ c.git.stat.raised = <<>>
           /\ c.ret.raised = <<>>
           /\ c.include_diff
           /\ c.max_diff_lines >= 1) =>
             LET full == split(c.git.diff.value[1])
                 diff == split(c.ret.value[1].diff) IN
             /\ c.ret.value[1].total_lines = Len(full)
             /\ Len(diff) <= c.max_diff_lines
             /\ Len(full) > c.max_diff_lines =>
                   SubSeq(diff, 1, c.max_diff_lines) = SubSeq(full, 1, c.max_diff_lines)

\* The path has one of the two extensions.
Accepted(path) == path # <<>> /\ path[Len(path)] \in {".py", ".js"}

\* The line, without the blanks around it and whatever the case of its
\* letters, is quit.
IsQuit(line) ==
    \E i \in DOMAIN line :
       /\ line[i] \in {"quit", "QUIT", "Quit"}
       /\ \A j \in DOMAIN line \ {i} : line[j] = Blank

====
